---------------------------- MODULE Spec2Model ----------------------------
(***************************************************************************)
(* Pump Strategy client-side backtesting engine: runBacktest (signal       *)
(* generation, trade simulation) and computeMetrics, in its two variants.  *)
(*   Variant A: src/app.js            (single window + price SMA filter)   *)
(*   Variant B: src/unnamed/part_000  (windows 3/7/14 vote + trailing stop)*)
(*                                                                         *)
(* Numbers.  Prices and revenues are small integers; every quotient the    *)
(* code forms is kept as an exact fraction [n, d].  A fraction with d = 0  *)
(* is the non-finite value JavaScript produces for a division by zero      *)
(* (0/0 = NaN, x/0 = Infinity).  Floating-point rounding of the quotients  *)
(* is not modelled.  Equities are integer cents after Math.round.          *)
(* Day indices are 0-based as in the code: a series is a function on       *)
(* 0..n-1.  The date field of a record is carried nowhere in the engine    *)
(* and is left out.                                                        *)
(***************************************************************************)
EXTENDS Integers, FiniteSets, Sequences, TLC

VARIABLES
    variant,          \* "A" (app.js) or "B" (part_000): which engine runs
    RAW_DATA,         \* the loaded series, read-only during a run
    window_days,      \* variant A parameter
    sma_days,         \* variant A parameter
    trailingStopPct,  \* variant B parameter, in percent (slider value)
    pc,               \* position of the run inside runBacktest
    i,                \* loop index of the loop pc names
    signals,          \* const signals = new Array(n).fill(0)
    avgs,             \* variant A: recentAvg, prevAvg, smaPrice of the last iteration
    peakPrice,        \* variant B
    inPosition,       \* variant B
    capital,          \* simulation: cash
    position,         \* simulation: units
    history,          \* rows pushed by the simulation loop
    metrics,          \* result of computeMetrics
    RAW_DATA2,        \* a second series, for the run the first is compared with
    signals2,         \* the second run's signals
    peakPrice2,       \* the second run's peakPrice
    inPosition2       \* the second run's inPosition

vars == <<variant, RAW_DATA, window_days, sma_days, trailingStopPct, pc, i,
          signals, avgs, peakPrice, inPosition, capital, position, history,
          metrics, RAW_DATA2, signals2, peakPrice2, inPosition2>>

-----------------------------------------------------------------------------
(* Bounds of the model *)

MaxDays == 5
MaxExtra == 3
MaxWindow == 2
MaxSma == 2

(* Program constants *)

initialCapital == 100000
W1 == 3
W2 == 7
W3 == 14

-----------------------------------------------------------------------------
(* Arithmetic on exact fractions *)

RECURSIVE Gcd(_, _)
Gcd(a, b) == IF b = 0 THEN a ELSE Gcd(b, a % b)

Frac(a, b) == LET g == Gcd(a, b) IN [n |-> a \div g, d |-> b \div g]

Zero == [n |-> 0, d |-> 1]

Int2Frac(a) == [n |-> a, d |-> 1]

\* JavaScript a / b on non-negative operands; b = 0 gives a non-finite value
Div(a, b) == IF b = 0 THEN [n |-> (IF a = 0 THEN 0 ELSE 1), d |-> 0] ELSE Frac(a, b)

IsFinite(x) == x.d # 0

IsNaN(x) == x.d = 0 /\ x.n = 0

\* x > y as JavaScript compares: false as soon as one side is NaN
Gt(x, y) ==
    /\ ~IsNaN(x)
    /\ ~IsNaN(y)
    /\ IF x.d = 0 THEN y.d # 0
       ELSE IF y.d = 0 THEN FALSE
       ELSE x.n * y.d > y.n * x.d

Lt(x, y) == Gt(y, x)

IsZero(x) == x.d # 0 /\ x.n = 0

IsPos(x) == Gt(x, Zero)

FMulInt(x, k) == Frac(x.n * k, x.d)

FDivInt(x, k) == Frac(x.n, x.d * k)

FAdd(x, y) == Frac(x.n * y.d + y.n * x.d, x.d * y.d)

\* Math.round(x * 100): x >= 0 finite, result in integer cents (half rounds up)
Round2(x) ==
    LET num == x.n * 100
        q == num \div x.d
        r == num % x.d
    IN IF 2 * r >= x.d THEN q + 1 ELSE q

-----------------------------------------------------------------------------
(* Series *)

Len0(f) == Cardinality(DOMAIN f)

Push(f, x) == [k \in 0..Len0(f) |-> IF k < Len0(f) THEN f[k] ELSE x]

Empty == [k \in {} |-> 0]

RECURSIVE SumOver(_, _)
SumOver(f, S) ==
    IF S = {} THEN 0
    ELSE LET j == CHOOSE x \in S : TRUE IN f[j] + SumOver(f, S \ {j})

Max(a, b) == IF a >= b THEN a ELSE b

MaxSet(S) == CHOOSE x \in S : \A y \in S : y <= x

-----------------------------------------------------------------------------
(* Variant A signal rule, src/app.js 58-88 *)

\* a lookback that forgets the doubled window
MinLookbackA_Short(w, s) == Max(w, s)

MinLookbackA(w, s) == Max(2 * w, s)

\* for (let j = i - window_days; j < i; j++)
RecentIdx(k, w) == (k - w)..(k - 1)

\* for (let j = i - 2 * window_days; j < i - window_days; j++)
PrevIdx(k, w) == (k - 2 * w)..(k - w - 1)

\* for (let j = i - sma_days; j < i; j++)
SmaIdx(k, s) == (k - s)..(k - 1)

\* a current price taken from the day being decided
CurrIdx_Today(k) == k

\* const currPrice = data[i - 1].price
CurrIdx(k) == k - 1

ReadIdxA(k, w, s) == RecentIdx(k, w) \cup PrevIdx(k, w) \cup SmaIdx(k, s) \cup {CurrIdx(k)}

Revenue(data) == [j \in DOMAIN data |-> data[j].revenue]

Price(data) == [j \in DOMAIN data |-> data[j].price]

RecentAvg(data, k, w) == Div(SumOver(Revenue(data), RecentIdx(k, w)), w)

PrevAvg(data, k, w) == Div(SumOver(Revenue(data), PrevIdx(k, w)), w)

SmaPrice(data, k, s) == Div(SumOver(Price(data), SmaIdx(k, s)), s)

\* currPrice >= smaPrice * 0.95
Uptrend(currPrice, sma) ==
    /\ ~IsNaN(sma)
    /\ IsFinite(sma)
    /\ currPrice * 100 * sma.d >= sma.n * 95

\* a rule that takes a revenue tie for growth
DecideA_TieBuys(recentAvg, prevAvg, uptrend, prevSignal) ==
    IF ~Lt(recentAvg, prevAvg) /\ uptrend THEN 1
    ELSE IF Lt(recentAvg, prevAvg) \/ ~uptrend THEN 0
    ELSE prevSignal

\* a rule that goes flat on a revenue tie instead of carrying the signal
DecideA_NoCarry(recentAvg, prevAvg, uptrend, prevSignal) ==
    IF Gt(recentAvg, prevAvg) /\ uptrend THEN 1
    ELSE 0

DecideA(recentAvg, prevAvg, uptrend, prevSignal) ==
    IF Gt(recentAvg, prevAvg) /\ uptrend THEN 1
    ELSE IF Lt(recentAvg, prevAvg) \/ ~uptrend THEN 0
    ELSE prevSignal

\* One iteration of the signal loop past the forced flat window
SignalA(data, sigs, k, w, s) ==
    LET recentAvg == RecentAvg(data, k, w)
        prevAvg == PrevAvg(data, k, w)
        smaPrice == SmaPrice(data, k, s)
        currPrice == data[CurrIdx(k)].price
        uptrend == Uptrend(currPrice, smaPrice)
        prevSignal == IF k > 0 THEN sigs[k - 1] ELSE 0
    IN DecideA(recentAvg, prevAvg, uptrend, prevSignal)

\* The body of the signal loop for day k: the new signals array, and whether
\* the body threw (data[j] undefined: reading its field is a TypeError)
LoopBodyA(data, sigs, k, w, s) ==
    IF k < MinLookbackA(w, s)
    THEN [threw |-> FALSE, signals |-> [sigs EXCEPT ![k] = 0]]
    ELSE IF ~(ReadIdxA(k, w, s) \subseteq DOMAIN data)
    THEN [threw |-> TRUE, signals |-> sigs]
    ELSE [threw |-> FALSE, signals |-> [sigs EXCEPT ![k] = SignalA(data, sigs, k, w, s)]]

-----------------------------------------------------------------------------
(* Variant B signal rule, src/unnamed/part_000 51-97 *)

\* const windows = [3, 7, 14]
Windows == {W1, W2, W3}

\* const minLookback = Math.max(...windows) * 2
MinLookbackB == MaxSet(Windows) * 2

ReadIdxB(k) ==
    UNION {RecentIdx(k, w) \cup PrevIdx(k, w) : w \in Windows} \cup {CurrIdx(k)}

\* if (recentSum / w > prevSum / w) votes++
Votes(data, k) ==
    Cardinality({w \in Windows : Gt(RecentAvg(data, k, w), PrevAvg(data, k, w))})

\* a vote that a single window carries
Momentum_Any(votes) == IF votes >= 1 THEN 1 ELSE 0

\* const momentumSignal = votes >= 2 ? 1 : 0
Momentum(votes) == IF votes >= 2 THEN 1 ELSE 0

\* a peak that stays at the entry price
RaisePeak_Stuck(peak, currPrice) == peak

\* if (currPrice > peakPrice) peakPrice = currPrice
RaisePeak(peak, currPrice) == IF currPrice > peak THEN currPrice ELSE peak

\* const dd = peakPrice > 0 ? (peakPrice - currPrice) / peakPrice : 0
Drawdown(peak, currPrice) == IF peak > 0 THEN Frac(peak - currPrice, peak) ELSE Zero

\* if (dd > trailingStopPct), trailingStopPct = parseInt(slider) / 100
StopHit(dd, pct) == Gt(dd, Frac(pct, 100))

\* The branch the loop body takes once the stop has not fired
MomentumRule(momentumSignal, inPos, peak, currPrice) ==
    IF momentumSignal = 1 /\ ~inPos
    THEN [signal |-> 1, inPosition |-> TRUE, peakPrice |-> currPrice]
    ELSE IF momentumSignal = 0 /\ inPos
    THEN [signal |-> 0, inPosition |-> FALSE, peakPrice |-> peak]
    ELSE IF inPos
    THEN [signal |-> 1, inPosition |-> inPos, peakPrice |-> peak]
    ELSE [signal |-> 0, inPosition |-> inPos, peakPrice |-> peak]

\* One iteration of the signal loop past the forced flat window
SignalB(data, k, inPos, peak, pct) ==
    LET momentumSignal == Momentum(Votes(data, k))
        currPrice == data[CurrIdx(k)].price
        peak1 == IF inPos THEN RaisePeak(peak, currPrice) ELSE peak
        dd == Drawdown(peak1, currPrice)
    IN IF inPos /\ StopHit(dd, pct)
       THEN [signal |-> 0, inPosition |-> FALSE, peakPrice |-> peak1]
       ELSE MomentumRule(momentumSignal, inPos, peak1, currPrice)

\* The body of the signal loop for day k
LoopBodyB(data, sigs, k, inPos, peak, pct) ==
    IF k < MinLookbackB
    THEN [threw |-> FALSE, signals |-> [sigs EXCEPT ![k] = 0],
          inPosition |-> inPos, peakPrice |-> peak]
    ELSE IF ~(ReadIdxB(k) \subseteq DOMAIN data)
    THEN [threw |-> TRUE, signals |-> sigs, inPosition |-> inPos, peakPrice |-> peak]
    ELSE LET r == SignalB(data, k, inPos, peak, pct)
         IN [threw |-> FALSE, signals |-> [sigs EXCEPT ![k] = r.signal],
             inPosition |-> r.inPosition, peakPrice |-> r.peakPrice]

-----------------------------------------------------------------------------
(* Trade simulation, src/app.js 90-124 (the same code as part_000 99-131) *)

\* const bhPosition = initialCapital / data[0].price
BhPosition(data) == Div(initialCapital, data[0].price)

\* a simulation that executes the day's own signal
Trade_NoLag(k, sigs, cap, pos, price) ==
    IF k > 0
    THEN LET prevSig == sigs[k]
         IN IF prevSig = 1 /\ IsZero(pos)
            THEN [capital |-> Zero, position |-> FDivInt(cap, price)]
            ELSE IF prevSig = 0 /\ IsPos(pos)
            THEN [capital |-> FMulInt(pos, price), position |-> Zero]
            ELSE [capital |-> cap, position |-> pos]
    ELSE [capital |-> cap, position |-> pos]

\* a simulation that buys without spending the cash
Trade_KeepCash(k, sigs, cap, pos, price) ==
    IF k > 0
    THEN LET prevSig == sigs[k - 1]
         IN IF prevSig = 1 /\ IsZero(pos)
            THEN [capital |-> cap, position |-> FDivInt(cap, price)]
            ELSE IF prevSig = 0 /\ IsPos(pos)
            THEN [capital |-> FMulInt(pos, price), position |-> Zero]
            ELSE [capital |-> cap, position |-> pos]
    ELSE [capital |-> cap, position |-> pos]

\* The if (i > 0) block: what the day does to capital and position
Trade(k, sigs, cap, pos, price) ==
    IF k > 0
    THEN LET prevSig == sigs[k - 1]
         IN IF prevSig = 1 /\ IsZero(pos)
            THEN [capital |-> Zero, position |-> FDivInt(cap, price)]
            ELSE IF prevSig = 0 /\ IsPos(pos)
            THEN [capital |-> FMulInt(pos, price), position |-> Zero]
            ELSE [capital |-> cap, position |-> pos]
    ELSE [capital |-> cap, position |-> pos]

\* const equity = capital + position * price
Equity(cap, pos, price) == FAdd(cap, FMulInt(pos, price))

\* a benchmark valued at the previous day's price
BhEquity_PrevDay(data, k) ==
    FMulInt(BhPosition(data), data[IF k > 0 THEN k - 1 ELSE 0].price)

\* const bhEquity = bhPosition * price
BhEquity(data, k) == FMulInt(BhPosition(data), data[k].price)

\* history.push({...})
Row(data, sigs, k, cap, pos) ==
    [price |-> data[k].price,
     revenue |-> data[k].revenue,
     equity |-> Round2(Equity(cap, pos, data[k].price)),
     bhEquity |-> Round2(BhEquity(data, k)),
     signal |-> sigs[k]]

-----------------------------------------------------------------------------
(* computeMetrics, src/app.js 135-181 (the same code as part_000 142-186). *)
(* annReturn, vol and sharpe need Math.pow and Math.sqrt and are left out; *)
(* every other reported field is computed.                                 *)

FSub1(x) == IF x.d = 0 THEN x ELSE Frac(x.n - x.d, x.d)

\* returns.push(prev > 0 ? (curr - prev) / prev : 0)
DailyReturn(prev, curr) == IF prev > 0 THEN Frac(curr - prev, prev) ELSE Zero

Returns(h) == [k \in 0..(Len0(h) - 2) |-> DailyReturn(h[k].equity, h[k + 1].equity)]

\* history[history.length - 1].equity / history[0].equity - 1
TotalReturn(h) == FSub1(Div(h[Len0(h) - 1].equity, h[0].equity))

RECURSIVE DDFold(_, _, _, _)
DDFold(h, k, peak, maxDD) ==
    IF k = Len0(h) THEN maxDD
    ELSE LET peak1 == IF h[k].equity > peak THEN h[k].equity ELSE peak
             dd == IF peak1 > 0 THEN Frac(peak1 - h[k].equity, peak1) ELSE Zero
         IN DDFold(h, k + 1, peak1, IF Gt(dd, maxDD) THEN dd ELSE maxDD)

MaxDD(h) == DDFold(h, 0, 0, Zero)

RECURSIVE TradeFold(_, _, _, _, _)
TradeFold(h, k, inTrade, entryEq, trades) ==
    IF k = Len0(h) THEN trades
    ELSE IF h[k].signal = 1 /\ ~inTrade
    THEN TradeFold(h, k + 1, TRUE, h[k].equity, trades)
    ELSE IF h[k].signal = 0 /\ inTrade
    THEN TradeFold(h, k + 1, FALSE, entryEq,
                   Append(trades, FSub1(Div(h[k].equity, entryEq))))
    ELSE TradeFold(h, k + 1, inTrade, entryEq, trades)

\* a trade list that also counts the trade still open on the last day
Trades_CountOpen(h) ==
    IF h[Len0(h) - 1].signal = 1
    THEN Append(TradeFold(h, 0, FALSE, 0, <<>>), Zero)
    ELSE TradeFold(h, 0, FALSE, 0, <<>>)

Trades(h) == TradeFold(h, 0, FALSE, 0, <<>>)

Wins(trades) == Cardinality({t \in 1..Len(trades) : IsPos(trades[t])})

\* trades.length > 0 ? trades.filter(t => t > 0).length / trades.length : 0
WinRate(trades) == IF Len(trades) > 0 THEN Frac(Wins(trades), Len(trades)) ELSE Zero

\* (x * 100).toFixed(2): hundredths of a percent, halves away from zero
Pct2(x) ==
    LET a == IF x.n < 0 THEN 0 - x.n ELSE x.n
        num == a * 10000
        q == num \div x.d
        r == num % x.d
        m == IF 2 * r >= x.d THEN q + 1 ELSE q
    IN IF x.n < 0 THEN 0 - m ELSE m

ComputeMetrics(h) ==
    IF Len0(h) < 2 THEN [reported |-> FALSE]
    ELSE [reported |-> TRUE,
          returns |-> Returns(h),
          totalReturn |-> TotalReturn(h),
          maxDD |-> MaxDD(h),
          tradeList |-> Trades(h),
          winRate |-> WinRate(Trades(h)),
          total_return |-> Pct2(TotalReturn(h)),
          max_drawdown |-> Pct2(MaxDD(h)),
          win_rate |-> Pct2(WinRate(Trades(h))),
          trades |-> Len(Trades(h))]

-----------------------------------------------------------------------------
(* Inputs.  A series is piecewise constant: the price changes at most once *)
(* and the revenue at most twice (variant A), or the revenue changes at    *)
(* most once and the price at most twice, inside the days the variant B    *)
(* engine can trade on.                                                    *)

n == Len0(RAW_DATA)

NoAvgs == [recentAvg |-> Zero, prevAvg |-> Zero, smaPrice |-> Zero]

\* level a before day c1, b on c1..c2-1, d from day c2 on
Steps(len, a, b, d, c1, c2) ==
    [j \in 0..(len - 1) |-> IF j < c1 THEN a ELSE IF j < c2 THEN b ELSE d]

TwoChanges(len, Vals, from) ==
    {Steps(len, a, b, d, c1, c2) :
        a \in Vals, b \in Vals, d \in Vals, c1 \in from..len, c2 \in from..len}

OneChange(len, Vals, from) ==
    {Steps(len, a, b, b, c1, c1) : a \in Vals, b \in Vals, c1 \in from..len}

Zip(P, R) == [j \in DOMAIN P |-> [price |-> P[j], revenue |-> R[j]]]

PriceLevels == {1, 2}

RevenueLevels == {0, 1}

SeriesA ==
    UNION {{Zip(P, R) : P \in OneChange(len, PriceLevels, 0),
                        R \in TwoChanges(len, RevenueLevels, 0)} :
           len \in 0..MaxDays}

LengthsB == {0, 1} \cup {MinLookbackB + e : e \in 0..MaxExtra}

SeriesB ==
    UNION {{Zip(P, R) : P \in TwoChanges(len, PriceLevels, MinLookbackB - 1),
                        R \in OneChange(len, RevenueLevels, 0)} :
           len \in LengthsB}

\* the trailing stop slider, in percent; 10 is the page's default
StopPcts == {10, 50}

NoShadow ==
    /\ RAW_DATA2 = Empty
    /\ signals2 = Empty
    /\ peakPrice2 = 0
    /\ inPosition2 = FALSE

InitCommon ==
    /\ pc = "start"
    /\ i = 0
    /\ signals = Empty
    /\ avgs = NoAvgs
    /\ peakPrice = 0
    /\ inPosition = FALSE
    /\ capital = Zero
    /\ position = Zero
    /\ history = Empty
    /\ metrics = [reported |-> FALSE]

InitA ==
    /\ variant = "A"
    /\ RAW_DATA \in SeriesA
    /\ window_days \in 0..MaxWindow
    /\ sma_days \in 0..MaxSma
    /\ trailingStopPct = 0
    /\ InitCommon
    /\ NoShadow

InitB ==
    /\ variant = "B"
    /\ RAW_DATA \in SeriesB
    /\ window_days = 0
    /\ sma_days = 0
    /\ trailingStopPct \in StopPcts
    /\ InitCommon
    /\ NoShadow

Init == InitA \/ InitB

-----------------------------------------------------------------------------
(* runBacktest *)

params == <<variant, RAW_DATA, window_days, sma_days, trailingStopPct>>

shadow == <<RAW_DATA2, signals2, peakPrice2, inPosition2>>

\* if (!RAW_DATA || RAW_DATA.length < 2) return; signals = new Array(n).fill(0)
Enter ==
    /\ pc = "start"
    /\ IF n < 2
       THEN pc' = "returned" /\ UNCHANGED signals
       ELSE pc' = "signals" /\ signals' = [k \in 0..(n - 1) |-> 0]
    /\ UNCHANGED <<params, i, avgs, peakPrice, inPosition, capital, position,
                   history, metrics, shadow>>

\* app.js 62-88
SignalStepA ==
    /\ pc = "signals"
    /\ variant = "A"
    /\ i < n
    /\ LET r == LoopBodyA(RAW_DATA, signals, i, window_days, sma_days)
       IN /\ signals' = r.signals
          /\ pc' = IF r.threw THEN "threw" ELSE pc
          /\ i' = IF r.threw THEN i ELSE i + 1
          /\ avgs' = IF r.threw \/ i < MinLookbackA(window_days, sma_days)
                     THEN avgs
                     ELSE [recentAvg |-> RecentAvg(RAW_DATA, i, window_days),
                           prevAvg |-> PrevAvg(RAW_DATA, i, window_days),
                           smaPrice |-> SmaPrice(RAW_DATA, i, sma_days)]
    /\ UNCHANGED <<params, peakPrice, inPosition, capital, position, history,
                   metrics, shadow>>

\* part_000 59-97
SignalStepB ==
    /\ pc = "signals"
    /\ variant = "B"
    /\ i < n
    /\ LET r == LoopBodyB(RAW_DATA, signals, i, inPosition, peakPrice, trailingStopPct)
       IN /\ signals' = r.signals
          /\ inPosition' = r.inPosition
          /\ peakPrice' = r.peakPrice
          /\ pc' = IF r.threw THEN "threw" ELSE pc
          /\ i' = IF r.threw THEN i ELSE i + 1
    /\ UNCHANGED <<params, avgs, capital, position, history, metrics, shadow>>

\* app.js 91-97: the signal loop is over, the simulation's locals are set up
StartSimulation ==
    /\ pc = "signals"
    /\ i = n
    /\ pc' = "simulate"
    /\ i' = 0
    /\ capital' = Int2Frac(initialCapital)
    /\ position' = Zero
    /\ history' = Empty
    /\ UNCHANGED <<params, signals, avgs, peakPrice, inPosition, metrics, shadow>>

\* app.js 99-124
SimStep ==
    /\ pc = "simulate"
    /\ i < n
    /\ LET t == Trade(i, signals, capital, position, RAW_DATA[i].price)
       IN /\ capital' = t.capital
          /\ position' = t.position
          /\ history' = Push(history, Row(RAW_DATA, signals, i, t.capital, t.position))
    /\ i' = i + 1
    /\ UNCHANGED <<params, pc, signals, avgs, peakPrice, inPosition, metrics, shadow>>

\* app.js 127: const metrics = computeMetrics(history); rendering is not modelled
Finish ==
    /\ pc = "simulate"
    /\ i = n
    /\ metrics' = ComputeMetrics(history)
    /\ pc' = "done"
    /\ UNCHANGED <<params, i, signals, avgs, peakPrice, inPosition, capital,
                   position, history, shadow>>

Next == Enter \/ SignalStepA \/ SignalStepB \/ StartSimulation \/ SimStep \/ Finish

Spec == Init /\ [][Next]_vars

-----------------------------------------------------------------------------
(* Two runs of the signal loop side by side, on series of the same length  *)
(* that agree before day `from` and differ in price and revenue on every   *)
(* day from there on; same parameters.                                     *)

OtherLevel(S, v) == CHOOSE x \in S : x # v

Differ(data, from) ==
    [j \in DOMAIN data |->
        IF j < from THEN data[j]
        ELSE [price |-> OtherLevel(PriceLevels, data[j].price),
              revenue |-> OtherLevel(RevenueLevels, data[j].revenue)]]

PairInitA ==
    /\ variant = "A"
    /\ RAW_DATA \in SeriesA
    /\ n >= 2
    /\ \E from \in 0..(n - 1) : RAW_DATA2 = Differ(RAW_DATA, from)
    /\ window_days \in 0..MaxWindow
    /\ sma_days \in 0..MaxSma
    /\ trailingStopPct = 0

PairInitB ==
    /\ variant = "B"
    /\ RAW_DATA \in SeriesB
    /\ n = MinLookbackB + MaxExtra
    /\ \E from \in (MinLookbackB - 1)..(n - 1) : RAW_DATA2 = Differ(RAW_DATA, from)
    /\ window_days = 0
    /\ sma_days = 0
    /\ trailingStopPct \in StopPcts

PairInit ==
    /\ PairInitA \/ PairInitB
    /\ InitCommon
    /\ signals2 = Empty
    /\ peakPrice2 = 0
    /\ inPosition2 = FALSE

rest == <<avgs, capital, position, history, metrics>>

PairEnter ==
    /\ pc = "start"
    /\ pc' = "signals"
    /\ signals' = [k \in 0..(n - 1) |-> 0]
    /\ signals2' = [k \in 0..(n - 1) |-> 0]
    /\ UNCHANGED <<params, RAW_DATA2, i, peakPrice, inPosition, peakPrice2,
                   inPosition2, rest>>

PairStepA ==
    /\ pc = "signals"
    /\ variant = "A"
    /\ i < n
    /\ LET r == LoopBodyA(RAW_DATA, signals, i, window_days, sma_days)
           r2 == LoopBodyA(RAW_DATA2, signals2, i, window_days, sma_days)
       IN /\ signals' = r.signals
          /\ signals2' = r2.signals
          /\ pc' = IF r.threw \/ r2.threw THEN "threw" ELSE pc
          /\ i' = IF r.threw \/ r2.threw THEN i ELSE i + 1
    /\ UNCHANGED <<params, RAW_DATA2, peakPrice, inPosition, peakPrice2,
                   inPosition2, rest>>

PairStepB ==
    /\ pc = "signals"
    /\ variant = "B"
    /\ i < n
    /\ LET r == LoopBodyB(RAW_DATA, signals, i, inPosition, peakPrice, trailingStopPct)
           r2 == LoopBodyB(RAW_DATA2, signals2, i, inPosition2, peakPrice2,
                           trailingStopPct)
       IN /\ signals' = r.signals
          /\ inPosition' = r.inPosition
          /\ peakPrice' = r.peakPrice
          /\ signals2' = r2.signals
          /\ inPosition2' = r2.inPosition
          /\ peakPrice2' = r2.peakPrice
          /\ pc' = IF r.threw \/ r2.threw THEN "threw" ELSE pc
          /\ i' = IF r.threw \/ r2.threw THEN i ELSE i + 1
    /\ UNCHANGED <<params, RAW_DATA2, rest>>

PairNext == PairEnter \/ PairStepA \/ PairStepB

SpecPair == PairInit /\ [][PairNext]_vars

-----------------------------------------------------------------------------
(* Vocabulary of the properties, written from the statements and not from  *)
(* the operators above.                                                    *)

RECURSIVE RangeSum(_, _, _)
RangeSum(f, a, b) == IF a > b THEN 0 ELSE f[a] + RangeSum(f, a + 1, b)

RevenueSum(a, b) == RangeSum([j \in DOMAIN RAW_DATA |-> RAW_DATA[j].revenue], a, b)

\* at least 2 of the windows 3, 7, 14 have recent average > previous average
MajorityVote(k) ==
    Cardinality({w \in {3, 7, 14} :
        RevenueSum(k - w, k - 1) * w > RevenueSum(k - 2 * w, k - w - 1) * w}) >= 2

HalfUp(num, den) == (2 * num + den) \div (2 * den)

CapitalCents == 100000 * 100

ClaimLookback ==
    IF variant = "A"
    THEN (IF 2 * window_days >= sma_days THEN 2 * window_days ELSE sma_days)
    ELSE 28

CodeLookback ==
    IF variant = "A" THEN MinLookbackA(window_days, sma_days) ELSE MinLookbackB

RollingIdx ==
    IF variant = "A"
    THEN RecentIdx(i, window_days) \cup PrevIdx(i, window_days) \cup SmaIdx(i, sma_days)
    ELSE UNION {RecentIdx(i, w) \cup PrevIdx(i, w) : w \in Windows}

-----------------------------------------------------------------------------
\* C2: Forced flat window.  In both variants signals[j] = 0 for every
\* j < minLookback, with minLookback = max(2*window_days, sma_days) in variant
\* A and 28 in variant B; and whenever the loop body runs past its guard
\* (i >= minLookback) every index the rolling revenue sums and the price SMA
\* read lies in 0..i-1.
ForcedFlatWindow ==
    /\ CodeLookback = ClaimLookback
    /\ \A j \in DOMAIN signals : j < ClaimLookback => signals[j] = 0
    /\ (pc = "signals" /\ i < n /\ i >= CodeLookback) => RollingIdx \subseteq 0..(i - 1)

\* A run of variant A with window_days = 2 that has gone past minLookback = 4
\* and set a signal there, the four days before it being flat.
ForcedFlatWindowWitness ==
    /\ variant = "A"
    /\ window_days = 2
    /\ pc = "signals"
    /\ i = 5
    /\ signals[4] = 1
    /\ \A j \in 0..3 : signals[j] = 0

-----------------------------------------------------------------------------
\* C3: Execution lag.  On day 0 no trade happens; on day i > 0 the position
\* changes only when signals[i-1] differs from the position held entering the
\* day (1 while flat: all cash to units at day i's price; 0 while holding: all
\* units to cash at day i's price); the equity emitted for day i is fixed by
\* the state entering the day, signals[i-1] and day i's price, so it is the
\* same whatever signals[i] is.
ExecutionLag ==
    [][(pc = "simulate" /\ i < n /\ i' = i + 1) =>
        LET price == RAW_DATA[i].price
            held == position.n > 0
            buy == i > 0 /\ signals[i - 1] = 1 /\ ~held
            sell == i > 0 /\ signals[i - 1] = 0 /\ held
            expCap == IF buy THEN Zero
                      ELSE IF sell THEN Frac(position.n * price, position.d)
                      ELSE capital
            expPos == IF buy THEN Frac(capital.n, capital.d * price)
                      ELSE IF sell THEN Zero
                      ELSE position
            expEq == Frac(expCap.n * expPos.d + expPos.n * price * expCap.d,
                          expCap.d * expPos.d)
        IN /\ capital' = expCap
           /\ position' = expPos
           /\ history'[i].equity = HalfUp(expEq.n * 100, expEq.d)]_vars

\* Day i-1 bought (signals[i-2] = 1 while flat) although its own signal is 0.
ExecutionLagWitness ==
    /\ pc = "simulate"
    /\ i > 2
    /\ signals[i - 3] = 0
    /\ signals[i - 2] = 1
    /\ signals[i - 1] = 0
    /\ position.n > 0
    /\ capital.n = 0

-----------------------------------------------------------------------------
\* C4: Equity conservation.  From the start of the simulation on, exactly one
\* of capital (cash) and position (units) is zero and the other is strictly
\* positive.
EquityConservation ==
    pc \in {"simulate", "done"} =>
        \/ (capital.n = 0 /\ position.n > 0 /\ position.d > 0)
        \/ (position.n = 0 /\ capital.n > 0 /\ capital.d > 0)

\* A day that went back to cash after having been invested.
EquityConservationWitness ==
    /\ pc = "simulate"
    /\ i > 2
    /\ signals[i - 3] = 1
    /\ signals[i - 2] = 0
    /\ position.n = 0
    /\ capital.n > 0
    /\ history[i - 2].equity # history[i - 1].equity

-----------------------------------------------------------------------------
\* C5: Benchmark invariance.  Every emitted benchmark equity is
\* initialCapital / price[0] * price[k] rounded to cents, a function of the
\* prices alone; on day 0 it is initialCapital.
BenchmarkInvariance ==
    \A k \in DOMAIN history :
        /\ history[k].bhEquity =
               HalfUp(100000 * RAW_DATA[k].price * 100, RAW_DATA[0].price)
        /\ (k = 0 => history[k].bhEquity = CapitalCents)

\* A finished run that traded, on prices that moved.
BenchmarkInvarianceWitness ==
    /\ pc = "done"
    /\ \E k \in DOMAIN history : history[k].bhEquity # CapitalCents
    /\ \E k \in DOMAIN history : history[k].equity # history[k].bhEquity
    /\ \E k \in DOMAIN signals : signals[k] = 1

-----------------------------------------------------------------------------
\* C6: Division-by-zero guards.  Every ratio the engine forms is finite: the
\* averages of the rolling sums over window_days and sma_days, the daily
\* returns, the total return, the drawdown, the trade returns and the win
\* rate.
NoNonFiniteRatio ==
    /\ IsFinite(avgs.recentAvg)
    /\ IsFinite(avgs.prevAvg)
    /\ IsFinite(avgs.smaPrice)
    /\ metrics.reported =>
        /\ \A k \in DOMAIN metrics.returns : IsFinite(metrics.returns[k])
        /\ IsFinite(metrics.totalReturn)
        /\ IsFinite(metrics.maxDD)
        /\ \A t \in 1..Len(metrics.tradeList) : IsFinite(metrics.tradeList[t])
        /\ IsFinite(metrics.winRate)

-----------------------------------------------------------------------------
Exits == {x \in DOMAIN history : x > 0 /\ history[x - 1].signal = 1 /\ history[x].signal = 0}

EntryOf(x) ==
    CHOOSE e \in 0..(x - 1) :
        /\ \A j \in e..(x - 1) : history[j].signal = 1
        /\ (e > 0 => history[e - 1].signal = 0)

WinningExits == {x \in Exits : history[x].equity > history[EntryOf(x)].equity}

\* C7: Trade counting.  The reported trade count is the number of 1 -> 0
\* transitions of the signal field (a trade still open on the last day is not
\* counted); winRate is (closed trades whose exit equity exceeds the equity of
\* the day the trade opened) / tradeCount, lies in [0, 1], and is 0 when no
\* trade closed.
TradeCounting ==
    (pc = "done" /\ metrics.reported) =>
        /\ metrics.trades = Cardinality(Exits)
        /\ metrics.winRate.n * Cardinality(Exits) = Cardinality(WinningExits) * metrics.winRate.d
        /\ metrics.winRate.d > 0
        /\ 0 <= metrics.winRate.n
        /\ metrics.winRate.n <= metrics.winRate.d
        /\ (Cardinality(Exits) = 0 => metrics.winRate.n = 0)
        /\ metrics.win_rate = HalfUp(metrics.winRate.n * 10000, metrics.winRate.d)

\* A finished run with one closed trade and a second trade still open on the
\* last day.
TradeCountingWitness ==
    /\ pc = "done"
    /\ metrics.reported
    /\ metrics.trades = 1
    /\ history[n - 1].signal = 1
    /\ Cardinality({e \in DOMAIN history :
           history[e].signal = 1 /\ (e = 0 \/ history[e - 1].signal = 0)}) = 2

-----------------------------------------------------------------------------
EntryIdx(k) ==
    CHOOSE e \in 0..(k - 1) :
        /\ \A j \in e..(k - 1) : signals[j] = 1
        /\ (e > 0 => signals[e - 1] = 0)

PeakSinceEntry(k) ==
    LET e == EntryIdx(k)
    IN CHOOSE p \in {RAW_DATA[j].price : j \in (e - 1)..(k - 1)} :
           \A j \in (e - 1)..(k - 1) : RAW_DATA[j].price <= p

\* C8: Variant B trailing stop.  Entering day i in a position, with peak the
\* largest price of data[e-1..i-1] for the entry index e: if
\* (peak - price[i-1]) / peak exceeds trailingStopPct then signals[i] = 0 and
\* the engine is flat after the day, whatever the momentum vote; if the
\* drawdown equals trailingStopPct the stop does not fire and a majority vote
\* keeps the position.
TrailingStop ==
    [][(pc = "signals" /\ variant = "B" /\ i < n /\ i >= 28 /\ inPosition /\ i' = i + 1) =>
        LET peak == PeakSinceEntry(i)
            fall == (peak - RAW_DATA[i - 1].price) * 100
            limit == trailingStopPct * peak
        IN /\ signals[i - 1] = 1
           /\ (fall > limit => signals'[i] = 0 /\ ~inPosition')
           /\ (fall = limit /\ MajorityVote(i) => signals'[i] = 1 /\ inPosition')]_vars

\* Entered on day 28, the price rose on the next day and fell back on the
\* day after: the stop fired on day 30 against a majority vote.
TrailingStopWitness ==
    /\ variant = "B"
    /\ pc = "signals"
    /\ i = 31
    /\ signals[28] = 1
    /\ signals[29] = 1
    /\ signals[30] = 0
    /\ ~inPosition
    /\ MajorityVote(30)
    /\ RAW_DATA[27].price < RAW_DATA[28].price
    /\ RAW_DATA[29].price < RAW_DATA[28].price

-----------------------------------------------------------------------------
FlatData == \A j \in DOMAIN RAW_DATA : RAW_DATA[j] = RAW_DATA[0]

\* C9: Flat series.  When every record has the same revenue and the same
\* price, every signal is 0, every emitted strategy equity is initialCapital,
\* and a finished run reports total return 0, max drawdown 0 and 0 trades.
FlatSeries ==
    FlatData =>
        /\ \A j \in DOMAIN signals : signals[j] = 0
        /\ \A k \in DOMAIN history : history[k].equity = CapitalCents
        /\ pc = "done" =>
            /\ metrics.reported
            /\ metrics.total_return = 0
            /\ metrics.max_drawdown = 0
            /\ metrics.trades = 0

\* A finished run of variant A on a flat series whose signal loop went past
\* the lookback with both windows in use.
FlatSeriesWitness ==
    /\ FlatData
    /\ pc = "done"
    /\ variant = "A"
    /\ window_days = 1
    /\ sma_days = 2
    /\ n >= 4

-----------------------------------------------------------------------------
FsmNext(long, vote, breach) ==
    IF long /\ breach THEN FALSE
    ELSE IF ~long /\ vote THEN TRUE
    ELSE IF long /\ ~vote THEN FALSE
    ELSE long

\* C10: Variant B signal generation is the machine {FLAT, LONG}: FLAT up to
\* day 27, then stepped once per day on (majority vote, drawdown breach):
\* LONG and breach -> FLAT; else FLAT and vote -> LONG with peakPrice set to
\* price[i-1]; else LONG and no vote -> FLAT; else unchanged.  signals[i] = 1
\* exactly when the state after day i is LONG.
SignalMachine ==
    [][(pc = "signals" /\ variant = "B" /\ i < n /\ i' = i + 1) =>
        IF i < 28
        THEN ~inPosition /\ ~inPosition' /\ signals'[i] = 0
        ELSE LET curr == RAW_DATA[i - 1].price
                 peak == IF inPosition /\ curr > peakPrice THEN curr ELSE peakPrice
                 breach == inPosition /\ (peak - curr) * 100 > trailingStopPct * peak
                 vote == MajorityVote(i)
             IN /\ inPosition' = FsmNext(inPosition, vote, breach)
                /\ (~inPosition /\ vote => peakPrice' = curr)
                /\ (signals'[i] = 1 <=> inPosition')]_vars

\* FLAT -> LONG on day 28, LONG -> FLAT on day 29 for want of a majority
\* (the price had not fallen), FLAT kept on day 30.
SignalMachineWitness ==
    /\ variant = "B"
    /\ pc = "signals"
    /\ i = 31
    /\ signals[28] = 1
    /\ signals[29] = 0
    /\ signals[30] = 0
    /\ ~MajorityVote(29)
    /\ RAW_DATA[28].price >= RAW_DATA[27].price

-----------------------------------------------------------------------------
AgreeBefore(j) == \A m \in 0..(j - 1) : RAW_DATA[m] = RAW_DATA2[m]

\* C1: No look-ahead (checked under SpecPair).  Two series of the same length
\* that agree on every record before day j give the same signals[j] under the
\* same parameters, in both variants, however they differ from day j on.
NoLookAhead ==
    pc = "signals" =>
        \A j \in 0..(i - 1) : AgreeBefore(j) => signals[j] = signals2[j]

\* Both runs have set a signal for a day on which the two series differ, the
\* signal is 1, and the runs part on a later day.
NoLookAheadWitness ==
    /\ pc = "signals"
    /\ \E j \in 0..(i - 1) :
           /\ AgreeBefore(j)
           /\ RAW_DATA[j] # RAW_DATA2[j]
           /\ signals[j] = 1
           /\ signals2[j] = 1
           /\ j + 1 < i
           /\ signals[j + 1] # signals2[j + 1]

-----------------------------------------------------------------------------
PriceSum(a, b) == RangeSum([j \in DOMAIN RAW_DATA |-> RAW_DATA[j].price], a, b)

\* C11: Variant A decision rule.  For every day i >= minLookback, with
\* recentAvg the mean revenue of data[i-window_days..i-1], prevAvg the mean
\* revenue of data[i-2*window_days..i-window_days-1] and uptrend =
\* (price[i-1] >= 0.95 * mean price of data[i-sma_days..i-1]): signals[i] = 1
\* if recentAvg > prevAvg and uptrend; signals[i] = 0 if recentAvg < prevAvg
\* or not uptrend; on an exact revenue tie with uptrend signals[i] =
\* signals[i-1], which is 0 at i = minLookback.  A mean over no day (window
\* length 0) is 0/0: it is neither greater, smaller nor equal, and no price
\* is at or above 0.95 times it.
DecisionRuleA ==
    [][(pc = "signals" /\ variant = "A" /\ i < n /\ i >= ClaimLookback /\ i' = i + 1) =>
        LET w == window_days
            recentSum == RevenueSum(i - w, i - 1)
            prevSum == RevenueSum(i - 2 * w, i - w - 1)
            more == w > 0 /\ recentSum * w > prevSum * w
            less == w > 0 /\ recentSum * w < prevSum * w
            tie == w > 0 /\ recentSum * w = prevSum * w
            uptrend == /\ sma_days > 0
                       /\ RAW_DATA[i - 1].price * 100 * sma_days
                              >= 95 * PriceSum(i - sma_days, i - 1)
        IN /\ (more /\ uptrend => signals'[i] = 1)
           /\ (less \/ ~uptrend => signals'[i] = 0)
           /\ (tie /\ uptrend => signals'[i] = signals[i - 1])
           /\ (tie /\ uptrend /\ i = ClaimLookback => signals'[i] = 0)]_vars

\* Revenue rose before day i-2 and has been level since while the price
\* held: the signal 1 of day i-2 was carried to day i-1 on a tie.
DecisionRuleAWitness ==
    /\ variant = "A"
    /\ pc = "signals"
    /\ window_days = 1
    /\ sma_days = 2
    /\ i >= 4
    /\ signals[i - 2] = 1
    /\ signals[i - 1] = 1
    /\ RAW_DATA[i - 2].revenue = RAW_DATA[i - 3].revenue
    /\ RAW_DATA[i - 3].revenue > RAW_DATA[i - 4].revenue

=============================================================================
